---- MODULE Spec2Model ----
(***************************************************************************)
(* bevy-audio-v2: the control scheduler side (AudioPlugin, NodePlugin) and *)
(* the real-time audio thread of the engine it drives.                     *)
(*                                                                         *)
(* One frame of the control scheduler is                                   *)
(*   Update  (systems emit gained/lost signals, write component fields    *)
(*            and queue commands)                                          *)
(*   Apply   (the command queue is applied, one command after the other,   *)
(*            then PostUpdate: update_output_device when OutputDevice      *)
(*            changed, on_change_beep and detect_changes, in any order)    *)
(*   Last    (update_audio_engine)                                         *)
(* The real-time thread processes blocks whenever the engine is Active;    *)
(* each block loads the Parameter Cells of the nodes it processes.         *)
(* Spec covers the engine, the devices and the bridge; SpecCells covers    *)
(* the Parameter Cells of the example component (Beep).                    *)
(* A panic (unwrap / expect) stops the program: `panicked` names it and    *)
(* the other variables keep the values they had at the panicking line.     *)
(***************************************************************************)
EXTENDS Integers, Sequences, FiniteSets, TLC

\* ------------------------------------------------------------- bounds
MaxNodes == 2   \* add_node calls issued over a run
MaxQueue == 2   \* commands queued in one frame

\* ------------------------------------------------------------- values
Entities == {"e1", "e2"}
Devices  == {"default", "usb"}
NoDevice == "none"      \* no OutputDevice resource / Option::None
NoNode   == 0           \* no entry in NodeIds.data
NoEntity == "-"
NodeIDs  == 1 .. (MaxNodes + 1)
OutPorts == {0, 1}      \* the two inputs of graph_out_node the example connects to
UserPort == 1           \* the input the application's own closure disconnects

\* The fields of the example component Beep and of the cells BeepNodeImpl
\* shares with the processor.
Amps      == {0, 1}     \* amplitudes toggle_beep switches between
Frequency == 440        \* the frequency setup_beep gives
Fields(a, f) == [amplitude |-> a, frequency |-> f]
DefaultBeep == Fields(0, Frequency)
NoProc == [cell |-> NoNode, own |-> FALSE, val |-> DefaultBeep]
NoProcs == [n \in NodeIDs |-> NoProc]
NoRead == [n \in NodeIDs |-> DefaultBeep]
NoCmd == [kind |-> "none", e |-> NoEntity, gone |-> FALSE, beep |-> DefaultBeep, seq |-> 0]

VARIABLES
    pc,            \* position of the control scheduler in its frame
    panicked,      \* "none", or the message of the panic that ended the program
    slot,          \* non-send resource held by the world: "Builder", "Engine", "Empty"
    engine,        \* the context: "Inactive", "Active", "Dropped"
    outDevice,     \* out_device_name() of the last successful activation
    usbIn,         \* whether the "usb" device can be opened
    outputDevice,  \* the OutputDevice resource (NoDevice when absent)
    devChanged,    \* resource_exists_and_changed::<OutputDevice>
    appExit,       \* Events<AppExit> is not empty
    nodes,         \* nodes of the AudioGraph (graph_out_node apart)
    conns,         \* connections <<node, port>> into graph_out_node
    nextId,        \* next NodeID add_node returns
    data,          \* NodeIds<N>.data : entity -> NodeID
    gained,        \* entities that currently have the tracked component
    despawned,     \* entities that no longer exist
    queue,         \* deferred commands, in emission order
    mutPc,         \* position inside apply_audio_graph_command
    cur,           \* the command being applied
    savedDev,      \* local out_device of apply_audio_graph_command
    nodeId,        \* local node_id of the closure being applied
    removeRan,     \* N::remove_node was invoked by the command being applied
    userOp,        \* what the application's closure did, if the command applied last was one
    batchDone,     \* commands of this frame's queue applied so far
    rtPc,          \* real-time thread: "idle" or "processing" a block
    committed,     \* the topology as the last completed mutation left it
    deactivated,   \* update() has returned Deactivated
    stops,         \* times the device stream of the latest activation was stopped
    beep,          \* the Beep component of each entity (amplitude, frequency)
    chgBeep,       \* entities whose Beep changed since on_change_beep ran
    chgNode,       \* entities whose Beep changed since detect_changes ran
    stored,        \* entities whose cells on_change_beep gave new values this frame
    beepNode,      \* the BeepNode component of each entity: the cells it points to
    cells,         \* the BeepNodeImpl allocations (Parameter Cells), by node id
    procs,         \* the processors of the active graph: the cells each one reads
    rtRead,        \* the parameters the block in flight loaded, per node
    dupGained      \* a gained signal arrived for an entity that already had one

vars == <<pc, panicked, slot, engine, outDevice, usbIn, outputDevice, devChanged,
          appExit, nodes, conns, nextId, data, gained, despawned, queue, mutPc,
          cur, savedDev, nodeId, removeRan, userOp, batchDone, rtPc, committed, deactivated, stops,
          beep, chgBeep, chgNode, stored, beepNode, cells, procs, rtRead, dupGained>>

engVars   == <<slot, engine, outDevice, stops>>
graphVars == <<nodes, conns, nextId>>
ecsVars   == <<gained, despawned, dupGained>>
mutVars   == <<mutPc, cur, savedDev, nodeId, removeRan, userOp, batchDone, committed>>
resVars   == <<outputDevice, devChanged, appExit, deactivated>>
compVars  == <<beep, chgBeep, chgNode, stored>>
cellVars  == <<beepNode, cells, procs, rtRead>>

Running == panicked = "none" /\ pc # "Exited"

\* ------------------------------------------------------------- engine
\* InactiveCtx::activate(device, ..): the device that is opened, given the
\* requested name (None opens the default device).
Opened(d) == IF d = NoDevice THEN "default" ELSE d

CanOpen(d) == Opened(d) = "default" \/ (Opened(d) = "usb" /\ usbIn)

\* The graph the world can still reach: a dropped context takes its graph along.
GraphNodes == IF engine = "Dropped" THEN {} ELSE nodes

TypeOK ==
    /\ pc \in {"Finish", "Update", "Apply", "Last", "Exited"}
    /\ slot \in {"Builder", "Engine", "Empty"}
    /\ engine \in {"Inactive", "Active", "Dropped"}
    /\ outDevice \in Devices \cup {NoDevice}
    /\ outputDevice \in Devices \cup {NoDevice}
    /\ nodes \subseteq NodeIDs
    /\ conns \subseteq (NodeIDs \X OutPorts)
    /\ data \in [Entities -> NodeIDs \cup {NoNode}]
    /\ gained \subseteq Entities /\ despawned \subseteq Entities
    /\ Len(queue) <= MaxQueue
    /\ mutPc \in {"idle", "closure", "end"}
    /\ rtPc \in {"idle", "processing"}
    /\ userOp \in {"none", "disconnect", "device", "nested"}
    /\ stops \in Nat
    /\ beep \in [Entities -> [amplitude : Amps, frequency : {Frequency}]]
    /\ cells \in [NodeIDs -> [amplitude : Amps, frequency : {Frequency}]]
    /\ beepNode \in [Entities -> NodeIDs \cup {NoNode}]
    /\ chgBeep \subseteq Entities /\ chgNode \subseteq Entities /\ stored \subseteq Entities

Init ==
    /\ pc = "Finish"
    /\ panicked = "none"
    /\ slot = "Builder"
    /\ engine = "Inactive"
    /\ outDevice = NoDevice
    /\ usbIn \in BOOLEAN
    /\ outputDevice \in Devices \cup {NoDevice}
    /\ devChanged = (outputDevice # NoDevice)
    /\ appExit = FALSE
    /\ nodes = {} /\ conns = {} /\ nextId = 1
    /\ data = [e \in Entities |-> NoNode]
    /\ gained = {} /\ despawned = {}
    /\ queue = <<>>
    /\ mutPc = "idle" /\ cur = NoCmd /\ savedDev = NoDevice
    /\ nodeId = NoNode /\ removeRan = FALSE /\ userOp = "none" /\ batchDone = 0
    /\ rtPc = "idle"
    /\ committed = [nodes |-> {}, conns |-> {}]
    /\ deactivated = FALSE /\ stops = 0
    /\ beep = [e \in Entities |-> DefaultBeep]
    /\ chgBeep = {} /\ chgNode = {} /\ stored = {}
    /\ beepNode = [e \in Entities |-> NoNode]
    /\ cells = [n \in NodeIDs |-> DefaultBeep]
    /\ procs = NoProcs
    /\ rtRead = NoRead
    /\ dupGained = FALSE

\* ActiveCtx::deactivate stops the device stream of the activation.
Deactivate(k) == k + 1

\* Variant of DeactivatedArm: the arm deactivates the context it was handed.
DeactivatedArm_Deactivates(k) == Deactivate(k + 1)

\* update() returned UpdateStatus::Deactivated: the stream has stopped by
\* itself; the arm logs and drops what it was handed.
DeactivatedArm(k) == k + 1

\* Variant of BeepNodeActivate: the processor gets a copy of the values (as
\* if the node held its atomics by value), not the shared allocation.
BeepNodeActivate_Copy(c) == [cell |-> c, own |-> TRUE, val |-> cells[c]]

\* BeepNode::activate: the processor gets `params: self.clone()`, a clone of
\* the Arc, so it reads the cells of the node it was made from.
BeepNodeActivate(c) == [cell |-> c, own |-> FALSE, val |-> DefaultBeep]

\* InactiveCtx::activate: every node of the graph gets a new processor.
ActivateProcs(ns) == [n \in NodeIDs |-> IF n \in ns THEN BeepNodeActivate(n) ELSE NoProc]

\* AudioPlugin::finish: take the builder out, activate on the OutputDevice
\* resource (if any), store the AudioEngine.
Finish ==
    /\ Running /\ pc = "Finish" /\ slot = "Builder"
    /\ IF CanOpen(outputDevice)
       THEN /\ slot' = "Engine" /\ engine' = "Active"
            /\ outDevice' = Opened(outputDevice)
            /\ pc' = "Update"
            /\ procs' = ActivateProcs(nodes) /\ stops' = 0
            /\ UNCHANGED panicked
       ELSE /\ slot' = "Empty"
            /\ panicked' = "Cannot start audio engine"
            /\ UNCHANGED <<engine, outDevice, pc, procs, stops>>
    /\ UNCHANGED <<usbIn, graphVars, data, ecsVars, queue, mutVars, resVars, rtPc,
                   compVars, beepNode, cells, rtRead>>

\* ------------------------------------------------------------- signals
\* Variant of Enqueue: the command goes to the front of the queue.
Enqueue_Front(c) == queue' = <<c>> \o queue

\* Commands::add / EntityCommands::add: the command goes to the end of the queue.
Enqueue(c) == queue' = Append(queue, c)

\* Commands emitted so far in this frame (none is applied before the
\* schedule reaches the point where the queue is applied); a command
\* carries, as `seq`, its rank among the commands its frame emitted.
Emitted == Len(queue)

\* on_add_node: the observer of OnAdd queues the mutation that creates the node.
\* The entity gained the tracked component (spawned with it, or inserted).
\* A command carries, as `gone`, whether its entity still exists when the
\* command runs: the command of an observer runs right after the change that
\* triggered it, so the entity of OnAdd exists, and the entity of OnRemove
\* exists unless the component went with the entity (despawn).
OnAddNode(e, a) ==
    /\ Running /\ pc = "Update"
    /\ e \notin despawned
    /\ Len(queue) < MaxQueue
    /\ nextId + Cardinality({i \in 1 .. Len(queue) : queue[i].kind = "add"}) <= MaxNodes
    /\ Enqueue([kind |-> "add", e |-> e, gone |-> FALSE, beep |-> Fields(a, Frequency),
                seq |-> Emitted + 1])
    /\ gained' = gained \cup {e}
    /\ dupGained' = (dupGained \/ e \in gained)
    /\ beep' = [beep EXCEPT ![e] = Fields(a, Frequency)]
    /\ chgBeep' = chgBeep \cup {e} /\ chgNode' = chgNode \cup {e}
    /\ UNCHANGED <<pc, panicked, engVars, usbIn, graphVars, data, despawned, mutVars,
                   resVars, rtPc, stored, cellVars>>

\* on_remove_node: the observer of OnRemove queues the mutation that removes the
\* node.  despawn = TRUE: the component goes because the entity is despawned.
OnRemoveNode(e, despawn) ==
    /\ Running /\ pc = "Update"
    /\ e \notin despawned
    /\ despawn => e \in gained
    /\ Len(queue) < MaxQueue
    /\ Enqueue([kind |-> "remove", e |-> e, gone |-> despawn, beep |-> DefaultBeep,
                seq |-> Emitted + 1])
    /\ gained' = gained \ {e}
    /\ despawned' = IF despawn THEN despawned \cup {e} ELSE despawned
    /\ beep' = [beep EXCEPT ![e] = DefaultBeep]
    /\ chgBeep' = chgBeep \ {e} /\ chgNode' = chgNode \ {e}
    /\ beepNode' = IF despawn THEN [beepNode EXCEPT ![e] = NoNode] ELSE beepNode
    /\ UNCHANGED <<pc, panicked, engVars, usbIn, graphVars, data, dupGained, mutVars,
                   resVars, rtPc, stored, cells, procs, rtRead>>

\* Commands::update_audio_graph with a closure of the application (what the
\* closure does is one of UserOps, settled when it runs).
UserUpdateAudioGraph ==
    /\ Running /\ pc = "Update"
    /\ Len(queue) < MaxQueue
    /\ Enqueue([kind |-> "user", e |-> NoEntity, gone |-> FALSE, beep |-> DefaultBeep,
                seq |-> Emitted + 1])
    /\ UNCHANGED <<pc, panicked, engVars, usbIn, graphVars, data, ecsVars, mutVars,
                   resVars, rtPc, compVars, cellVars>>

\* A system of the application writes the OutputDevice resource.
SetOutputDevice(d) ==
    /\ Running /\ pc = "Update"
    /\ d # outputDevice
    /\ outputDevice' = d /\ devChanged' = TRUE
    /\ UNCHANGED <<pc, panicked, engVars, usbIn, graphVars, data, ecsVars, queue, mutVars,
                   appExit, deactivated, rtPc, compVars, cellVars>>

\* A system of the application sends AppExit.
SendAppExit ==
    /\ Running /\ pc = "Update"
    /\ ~appExit
    /\ appExit' = TRUE
    /\ UNCHANGED <<pc, panicked, engVars, usbIn, graphVars, data, ecsVars, queue, mutVars,
                   outputDevice, devChanged, deactivated, rtPc, compVars, cellVars>>

\* The "usb" output device is plugged in or pulled out.
PlugUsb ==
    /\ Running /\ pc = "Update"
    /\ usbIn' = ~usbIn
    /\ UNCHANGED <<pc, panicked, engVars, graphVars, data, ecsVars, queue, mutVars,
                   resVars, rtPc, compVars, cellVars>>

\* The schedule reaches the point where deferred commands are applied.
ApplyDeferred ==
    /\ Running /\ pc = "Update"
    /\ pc' = "Apply"
    /\ UNCHANGED <<panicked, engVars, usbIn, graphVars, data, ecsVars, queue, mutVars,
                   resVars, rtPc, compVars, cellVars>>

\* ------------------------------------------------------------- closures
\* AudioGraph::connect(node, 0, graph_out_node, p, false): the connections
\* afterwards; a rejected connect (ok = FALSE) changes nothing.
Connect(cs, n, p, ok) == IF ok THEN cs \cup {<<n, p>>} ELSE cs

\* AudioGraph::remove_node: the node and its connections go.
GraphRemove(ns, cs, n) == [nodes |-> ns \ {n}, conns |-> {c \in cs : c[1] # n}]

\* Variant of MapInsert: the node is created but never recorded.
MapInsert_Forgotten(d, e, n) == d

\* NodeIds.data.insert(entity, node_id)
MapInsert(d, e, n) == [d EXCEPT ![e] = n]

\* Variant of MapRemove: the entry stays in the map.
MapRemove_Kept(d, e) == d

\* NodeIds.data.remove(&entity)
MapRemove(d, e) == [d EXCEPT ![e] = NoNode]

\* What a closure leaves behind: the graph, the map, its locals, and the
\* panic that ended it ("none" when it returned).
Outcome(panic, ns, cs, nid, d, id, ran) ==
    [panic |-> panic, nodes |-> ns, conns |-> cs, nextId |-> nid, data |-> d,
     nodeId |-> id, removeRan |-> ran]

\* NodeComponent::create_node of the example component (Beep): read the
\* component (it is there: the command follows the insertion), add the node,
\* connect it to both output channels, unwrapping each connect.
\* ok0, ok1: whether the engine accepts the connects.
CreateNode(e, ok0, ok1) ==
    LET n  == nextId
        ns == nodes \cup {n}
        c0 == Connect(conns, n, 0, ok0)
        c1 == Connect(c0, n, 1, ok1)
    IN  IF ~ok0
        THEN Outcome("ConnectError", ns, c0, n + 1, data, NoNode, FALSE)
        ELSE IF ~ok1
        THEN Outcome("ConnectError", ns, c1, n + 1, data, NoNode, FALSE)
        ELSE Outcome("none", ns, c1, n + 1, data, n, FALSE)

\* Variant of NewCells: the two fields are crossed.
NewCells_Swapped(b) == Fields(b.frequency, b.amplitude)

\* Arc::new(BeepNodeImpl { amplitude: AtomicF32::new(this.amplitude),
\* frequency: AtomicF32::new(this.frequency) })
NewCells(b) == Fields(b.amplitude, b.frequency)

\* create_node, its first lines: the cells are allocated from the component
\* and the entity gets a BeepNode pointing to them (entity.insert(node.clone())),
\* the node that goes into the graph holds the same Arc.
CreateCells(e, n, b) ==
    [beepNode |-> [beepNode EXCEPT ![e] = n],
     cells    |-> [cells EXCEPT ![n] = NewCells(b)]]

\* The closure on_add_node queues: world.entity_mut(entity), create_node,
\* record the node under the entity.
OnAddClosure(e, gone, ok0, ok1) ==
    IF gone
    THEN Outcome("entity does not exist", nodes, conns, nextId, data, NoNode, FALSE)
    ELSE LET c == CreateNode(e, ok0, ok1)
         IN  IF c.panic # "none" THEN c
             ELSE [c EXCEPT !.data = MapInsert(data, e, c.nodeId)]

\* NodeComponent::remove_node (the default body): remove the node, unwrap.
RemoveNode(d, n) ==
    IF n \notin nodes
    THEN Outcome("remove_node: node not found", nodes, conns, nextId, d, n, TRUE)
    ELSE LET g == GraphRemove(nodes, conns, n)
         IN  Outcome("none", g.nodes, g.conns, nextId, d, n, TRUE)

\* Variant of OnRemoveClosure: a missing entry is skipped (if let Some) instead
\* of unwrapped.
OnRemoveClosure_Silent(e, gone) ==
    IF data[e] = NoNode
    THEN Outcome("none", nodes, conns, nextId, data, NoNode, FALSE)
    ELSE LET n == data[e]
             d == MapRemove(data, e)
         IN  IF gone
             THEN Outcome("entity does not exist", nodes, conns, nextId, d, n, FALSE)
             ELSE RemoveNode(d, n)

\* The closure on_remove_node queues: take the entry out of the map (unwrap),
\* world.entity_mut(entity), remove_node.
OnRemoveClosure(e, gone) ==
    IF data[e] = NoNode
    THEN Outcome("ConsistencyError", nodes, conns, nextId, data, NoNode, FALSE)
    ELSE LET n == data[e]
             d == MapRemove(data, e)
         IN  IF gone
             THEN Outcome("entity does not exist", nodes, conns, nextId, d, n, FALSE)
             ELSE RemoveNode(d, n)

\* The application's closure gets the world and the graph, both mutable.  It
\*   "disconnect": disconnects what feeds input UserPort of graph_out_node;
\*   "device":     inserts an OutputDevice resource into the world;
\*   "nested":     queues a further update_audio_graph command and flushes
\*                 the world's commands: apply_audio_graph_command is entered
\*                 again, finds no AudioEngine in the world and panics.
UserOps == {"disconnect", "device", "nested"}

UserClosure(op) ==
    CASE op = "disconnect" ->
            Outcome("none", nodes, {c \in conns : c[2] # UserPort}, nextId, data, NoNode, FALSE)
      [] op = "nested" ->
            Outcome("Audio engine incorrectly set up", nodes, conns, nextId, data, NoNode, FALSE)
      [] OTHER ->
            Outcome("none", nodes, conns, nextId, data, NoNode, FALSE)

\* ------------------------------------------------------------- mutation
\* Variant of TakeGraph: the graph is borrowed from the context as it is,
\* without deactivating it.
TakeGraph_StillActive(st, rt) == [engine |-> st, rtPc |-> rt]

\* Variant of TakeGraph: the context is marked Inactive but the block in
\* flight is not waited for.
TakeGraph_NoJoin(st, rt) == [engine |-> "Inactive", rtPc |-> rt]

\* apply_audio_graph_command, first part: take the AudioEngine out of the
\* world, remember its device, deactivate it and borrow the graph.
\* deactivate() stops the device stream: no block is in flight afterwards.
TakeGraph(st, rt) == [engine |-> "Inactive", rtPc |-> "idle"]


ApplyBegin ==
    /\ Running /\ pc = "Apply" /\ mutPc = "idle" /\ queue # <<>>
    /\ cur' = Head(queue) /\ queue' = Tail(queue)
    /\ nodeId' = NoNode /\ removeRan' = FALSE /\ userOp' = "none"
    /\ IF slot = "Engine"
       THEN /\ slot' = "Empty"
            /\ savedDev' = outDevice
            /\ engine' = TakeGraph(engine, rtPc).engine
            /\ rtPc' = TakeGraph(engine, rtPc).rtPc
            /\ stops' = Deactivate(stops)
            /\ procs' = IF engine' = "Active" THEN procs ELSE NoProcs
            /\ rtRead' = IF rtPc' = "idle" THEN NoRead ELSE rtRead
            /\ mutPc' = "closure"
            /\ UNCHANGED panicked
       ELSE /\ panicked' = "Audio engine incorrectly set up"
            /\ UNCHANGED <<slot, savedDev, engine, rtPc, mutPc, procs, rtRead, stops>>
    /\ UNCHANGED <<pc, outDevice, usbIn, graphVars, data, ecsVars, batchDone, committed,
                   resVars, compVars, beepNode, cells>>

\* apply_audio_graph_command, second part: apply(world, audio_graph).
ClosureOutcome(c, ok0, ok1, op) ==
    CASE c.kind = "add"    -> OnAddClosure(c.e, c.gone, ok0, ok1)
      [] c.kind = "remove" -> OnRemoveClosure(c.e, c.gone)
      [] OTHER             -> UserClosure(op)

\* What the closure does to the BeepNode components and the cells: only
\* create_node touches them, before it adds the node.
ClosureCells(c) ==
    IF c.kind = "add" /\ ~c.gone
    THEN CreateCells(c.e, nextId, c.beep)
    ELSE [beepNode |-> beepNode, cells |-> cells]

\* What the closure does to the OutputDevice resource of the world.
ClosureWorld(c, op, d) ==
    IF c.kind = "user" /\ op = "device"
    THEN [outputDevice |-> d, devChanged |-> TRUE]
    ELSE [outputDevice |-> outputDevice, devChanged |-> devChanged]

\* What the closure meets when it runs: whether the engine accepts each of
\* the two connects of create_node (the second is reached only after the
\* first succeeded), and, for a closure of the application, what it does.
ClosureInputs(c) ==
    CASE c.kind = "add" /\ ~c.gone ->
            {[ok0 |-> FALSE, ok1 |-> TRUE, op |-> "none", d |-> NoDevice]}
            \cup [ok0 : {TRUE}, ok1 : BOOLEAN, op : {"none"}, d : {NoDevice}]
      [] c.kind = "user" ->
            [ok0 : {TRUE}, ok1 : {TRUE}, op : {"disconnect", "nested"}, d : {NoDevice}]
            \cup [ok0 : {TRUE}, ok1 : {TRUE}, op : {"device"}, d : Devices \ {outputDevice}]
      [] OTHER ->
            {[ok0 |-> TRUE, ok1 |-> TRUE, op |-> "none", d |-> NoDevice]}

ApplyClosure ==
    /\ Running /\ mutPc = "closure"
    /\ \E in \in ClosureInputs(cur) :
         LET o == ClosureOutcome(cur, in.ok0, in.ok1, in.op)
             w == ClosureWorld(cur, in.op, in.d)
         IN  /\ nodes' = o.nodes /\ conns' = o.conns /\ nextId' = o.nextId
             /\ data' = o.data
             /\ nodeId' = o.nodeId /\ removeRan' = o.removeRan
             /\ userOp' = IF cur.kind = "user" THEN in.op ELSE "none"
             /\ outputDevice' = w.outputDevice /\ devChanged' = w.devChanged
             /\ panicked' = o.panic
             /\ mutPc' = IF o.panic = "none" THEN "end" ELSE mutPc
    /\ beepNode' = ClosureCells(cur).beepNode
    /\ cells' = ClosureCells(cur).cells
    /\ UNCHANGED <<pc, engVars, usbIn, ecsVars, queue, cur, savedDev, batchDone,
                   committed, appExit, deactivated, rtPc, compVars, procs, rtRead>>

\* Variant of RestartDevice: the engine restarts on the OutputDevice resource.
RestartDevice_Resource(saved, res) == res

\* cx.activate(Some(&out_device), ..): the device the engine restarts on is
\* the one remembered before the closure ran, whatever the OutputDevice
\* resource says by now.
RestartDevice(saved, res) == saved

\* apply_audio_graph_command, last part: activate on the remembered device
\* and put the AudioEngine back.
ApplyEnd ==
    /\ Running /\ mutPc = "end"
    /\ IF CanOpen(RestartDevice(savedDev, outputDevice))
       THEN /\ engine' = "Active"
            /\ outDevice' = Opened(RestartDevice(savedDev, outputDevice))
            /\ slot' = "Engine"
            /\ mutPc' = "idle" /\ cur' = NoCmd /\ savedDev' = NoDevice
            /\ nodeId' = NoNode /\ removeRan' = FALSE /\ UNCHANGED userOp
            /\ batchDone' = batchDone + 1
            /\ committed' = [nodes |-> nodes, conns |-> conns]
            /\ procs' = ActivateProcs(nodes) /\ stops' = 0
            /\ UNCHANGED panicked
       ELSE /\ panicked' = "Cannot restart audio engine"
            /\ UNCHANGED <<engine, outDevice, slot, mutVars, procs, stops>>
    /\ UNCHANGED <<pc, usbIn, graphVars, data, ecsVars, queue, resVars, rtPc,
                   compVars, beepNode, cells, rtRead>>

\* ------------------------------------------------------------- systems
\* update_output_device (PostUpdate, run_if resource_exists_and_changed), once
\* the queue has been applied: take the engine out, deactivate, activate on
\* the new device, put it back.
UpdateOutputDevice ==
    /\ Running /\ pc = "Apply" /\ mutPc = "idle" /\ queue = <<>>
    /\ IF ~devChanged
       THEN UNCHANGED <<panicked, engVars, rtPc, procs, rtRead>>
       ELSE IF slot # "Engine"
       THEN /\ panicked' = "Audio engine incorrectly set up"
            /\ UNCHANGED <<engVars, rtPc, procs, rtRead>>
       ELSE IF CanOpen(outputDevice)
       THEN /\ engine' = "Active" /\ outDevice' = Opened(outputDevice)
            /\ slot' = "Engine" /\ rtPc' = "idle"
            /\ procs' = ActivateProcs(nodes) /\ rtRead' = NoRead
            /\ stops' = 0
            /\ UNCHANGED panicked
       ELSE /\ engine' = "Inactive" /\ slot' = "Empty" /\ rtPc' = "idle"
            /\ procs' = NoProcs /\ rtRead' = NoRead
            /\ stops' = Deactivate(stops)
            /\ panicked' = "Couldn't restart audio engine"
            /\ UNCHANGED outDevice
    /\ pc' = IF panicked' = "none" THEN "Last" ELSE pc
    /\ batchDone' = IF panicked' = "none" THEN 0 ELSE batchDone
    /\ userOp' = IF panicked' = "none" THEN "none" ELSE userOp
    /\ UNCHANGED <<usbIn, graphVars, data, ecsVars, queue, mutPc, cur, savedDev, nodeId,
                   removeRan, committed, resVars, compVars, beepNode, cells>>

\* update_audio_engine (Last): take the engine out; on a pending AppExit
\* deactivate and return; otherwise update() and put the engine back only
\* when the status is Ok.  The frame ends here.
UpdateAudioEngine ==
    /\ Running /\ pc = "Last"
    /\ chgBeep = {} /\ chgNode = {}
    /\ IF slot # "Engine"
       THEN /\ panicked' = "Audio engine incorrectly set up"
            /\ UNCHANGED <<pc, engVars, rtPc, devChanged, deactivated, procs, rtRead>>
       ELSE IF appExit
       THEN /\ slot' = "Empty" /\ engine' = "Dropped" /\ rtPc' = "idle"
            /\ procs' = NoProcs /\ rtRead' = NoRead
            /\ stops' = Deactivate(stops)
            /\ pc' = "Exited"
            /\ UNCHANGED <<panicked, outDevice, devChanged, deactivated>>
       ELSE \E st \in {"Ok", "Deactivated"} :
            /\ IF st = "Ok"
               THEN UNCHANGED <<engVars, rtPc, deactivated, procs, rtRead>>
               ELSE /\ slot' = "Empty" /\ engine' = "Dropped" /\ rtPc' = "idle"
                    /\ procs' = NoProcs /\ rtRead' = NoRead
                    /\ stops' = DeactivatedArm(stops)
                    /\ deactivated' = TRUE
                    /\ UNCHANGED outDevice
            /\ pc' = "Update"
            /\ devChanged' = FALSE
            /\ UNCHANGED panicked
    /\ stored' = IF slot # "Engine" THEN stored ELSE {}
    /\ UNCHANGED <<usbIn, graphVars, data, ecsVars, queue, mutVars, outputDevice, appExit,
                   beep, chgBeep, chgNode, beepNode, cells>>

\* ------------------------------------------------------------- parameters
\* PostUpdate has been reached and update_audio_engine (Last) has not run yet:
\* the PostUpdate systems run in any order.
InPostUpdate == (pc = "Apply" /\ mutPc = "idle" /\ queue = <<>>) \/ pc = "Last"

\* toggle_beep, or any system of the application in Update that writes a
\* field of the component of an entity that has it.
ChangeField(e, a) ==
    /\ Running /\ pc = "Update"
    /\ e \in gained
    /\ a # beep[e].amplitude
    /\ beep' = [beep EXCEPT ![e].amplitude = a]
    /\ chgBeep' = chgBeep \cup {e} /\ chgNode' = chgNode \cup {e}
    /\ UNCHANGED <<pc, panicked, engVars, usbIn, graphVars, data, ecsVars, queue, mutVars,
                   resVars, rtPc, stored, cellVars>>

\* node.amplitude.store(beep.amplitude); node.frequency.store(beep.frequency)
StoreBeep(b) == Fields(b.amplitude, b.frequency)

\* Variant of ChangedBeeps: the query filters on a component no entity has.
ChangedBeeps_Empty == {}

\* The entities Query<(&Beep, &BeepNode), Changed<Beep>> yields.
ChangedBeeps == {e \in chgBeep \cap gained : beepNode[e] # NoNode}

\* on_change_beep (PostUpdate): store the fields of every changed Beep into
\* the cells of the entity's BeepNode.
OnChangeBeep ==
    /\ Running /\ InPostUpdate
    /\ chgBeep # {}
    /\ cells' = [n \in NodeIDs |->
                   IF \E e \in ChangedBeeps : beepNode[e] = n
                   THEN StoreBeep(beep[CHOOSE e \in ChangedBeeps : beepNode[e] = n])
                   ELSE cells[n]]
    /\ stored' = stored \cup {e \in ChangedBeeps : cells[beepNode[e]] # StoreBeep(beep[e])}
    /\ chgBeep' = {}
    /\ UNCHANGED <<pc, panicked, engVars, usbIn, graphVars, data, ecsVars, queue, mutVars,
                   resVars, rtPc, beep, chgNode, beepNode, procs, rtRead>>

\* Variant of DetectChanges: the change is handled by queueing a graph mutation.
DetectChanges_Queues ==
    /\ Running /\ InPostUpdate
    /\ chgNode # {}
    /\ chgNode' = {}
    /\ Enqueue([kind |-> "user", e |-> NoEntity, gone |-> FALSE, beep |-> DefaultBeep,
                seq |-> Emitted + 1])
    /\ UNCHANGED <<pc, panicked, engVars, usbIn, graphVars, data, ecsVars, mutVars,
                   resVars, rtPc, beep, chgBeep, stored, cellVars>>

\* detect_changes (PostUpdate): trigger OnChange for every entity whose
\* component changed.  Nothing observes OnChange.
DetectChanges ==
    /\ Running /\ InPostUpdate
    /\ chgNode # {}
    /\ chgNode' = {}
    /\ UNCHANGED <<pc, panicked, engVars, usbIn, graphVars, data, ecsVars, queue, mutVars,
                   resVars, rtPc, beep, chgBeep, stored, cellVars>>

\* ------------------------------------------------------------- real-time thread
\* BeepNodeProcessor::process loads frequency and amplitude from its params.
Load(p) == IF p.own THEN p.val ELSE Fields(cells[p.cell].amplitude, cells[p.cell].frequency)

\* The device stream calls the graph's processors for one block: each one
\* loads its parameters.
RtBegin ==
    /\ Running /\ engine = "Active" /\ rtPc = "idle"
    /\ rtPc' = "processing"
    /\ rtRead' = [n \in NodeIDs |-> IF procs[n] = NoProc THEN DefaultBeep ELSE Load(procs[n])]
    /\ UNCHANGED <<pc, panicked, engVars, usbIn, graphVars, data, ecsVars, queue, mutVars,
                   resVars, compVars, beepNode, cells, procs>>

RtEnd ==
    /\ Running /\ rtPc = "processing"
    /\ rtPc' = "idle"
    /\ rtRead' = NoRead
    /\ UNCHANGED <<pc, panicked, engVars, usbIn, graphVars, data, ecsVars, queue, mutVars,
                   resVars, compVars, beepNode, cells, procs>>

\* ------------------------------------------------------------- specification
Next ==
    \/ Finish
    \/ \E e \in Entities : OnAddNode(e, DefaultBeep.amplitude)
    \/ OnChangeBeep
    \/ DetectChanges
    \/ \E e \in Entities, d \in BOOLEAN : OnRemoveNode(e, d)
    \/ UserUpdateAudioGraph
    \/ \E d \in Devices : SetOutputDevice(d)
    \/ SendAppExit
    \/ PlugUsb
    \/ ApplyDeferred
    \/ ApplyBegin
    \/ ApplyClosure
    \/ ApplyEnd
    \/ UpdateOutputDevice
    \/ UpdateAudioEngine
    \/ RtBegin
    \/ RtEnd

Spec == Init /\ [][Next]_vars

\* The frames of an application that writes the fields of its components:
\* every Beep starts with any amplitude and toggle_beep may change it in any
\* frame.  The devices stay available and the application neither exits nor
\* queues closures of its own; those cases are left to Spec, where every Beep
\* keeps the fields setup_beep gives it.
InitCells == Init /\ usbIn /\ outputDevice = NoDevice

NextCells ==
    \/ Finish
    \/ \E e \in Entities, a \in Amps : OnAddNode(e, a)
    \/ \E e \in Entities, d \in BOOLEAN : OnRemoveNode(e, d)
    \/ \E e \in Entities, a \in Amps : ChangeField(e, a)
    \/ \E d \in Devices : SetOutputDevice(d)
    \/ ApplyDeferred
    \/ ApplyBegin
    \/ ApplyClosure
    \/ ApplyEnd
    \/ OnChangeBeep
    \/ DetectChanges
    \/ UpdateOutputDevice
    \/ UpdateAudioEngine
    \/ RtBegin
    \/ RtEnd

SpecCells == InitCells /\ [][NextCells]_vars

\* ------------------------------------------------------------- properties
Quiet == mutPc = "idle" /\ panicked = "none" /\ pc # "Exited"

Mapped == {e \in Entities : data[e] # NoNode}

Topology == [nodes |-> nodes, conns |-> conns]

\* C1: whenever no mutation is in progress, an entry E -> n exists in the
\* Entity-to-Node Map exactly when node n exists in the audio graph: no entry
\* points to a missing node and no node is without an entry (given that no
\* entity gained the component twice in a row).
C1_MapMatchesGraph ==
    (Quiet /\ ~dupGained) =>
        /\ \A e \in Mapped : data[e] \in GraphNodes
        /\ \A n \in GraphNodes : \E e \in Entities : data[e] = n

\* C2: with no duplicate gained signal, once the queued commands have been
\* applied the map contains exactly the entities that currently have the
\* component, and as many entries as there are such entities.
C2_MapIsGained ==
    (Quiet /\ queue = <<>> /\ ~dupGained) =>
        /\ Mapped = gained
        /\ Cardinality(Mapped) = Cardinality(gained)

\* C2 witness: two gained signals and one lost signal have been applied.
C2_Witness ==
    /\ Quiet /\ queue = <<>> /\ ~dupGained
    /\ nextId = 3 /\ Cardinality(gained) = 1 /\ Cardinality(nodes) = 1

\* C3: while the closure passed to apply_audio_graph_command holds the graph,
\* the engine is Inactive and the real-time thread processes no block.
C3_EditsOnlyWhileInactive ==
    mutPc \in {"closure", "end"} => (engine = "Inactive" /\ rtPc = "idle")

\* C3 witness: a closure has edited the graph and the engine is not restarted yet.
C3_Witness == mutPc = "end" /\ Topology # committed

\* C4 as stated: the real-time thread never processes a block while some but
\* not all of the frame's queued mutations have been applied.
C4_BatchBeforeAnyBlock ==
    rtPc = "processing" => ~(pc = "Apply" /\ batchDone > 0 /\ queue # <<>>)

\* C4 amended: every block the real-time thread processes runs on a topology
\* left by whole mutations (never on one a closure has partly edited); blocks
\* may run between two mutations of the same frame.
C4_BlocksSeeWholeMutations ==
    rtPc = "processing" => (mutPc = "idle" /\ engine = "Active" /\ Topology = committed)

\* C4 witness: a block is processed between two mutations of one frame.
C4_Witness ==
    /\ rtPc = "processing" /\ pc = "Apply" /\ batchDone > 0 /\ queue # <<>>
    /\ committed.nodes # {}

\* C5: a mutation whose connect is rejected aborts only itself: the topology
\* is the one the last completed mutation left (no orphaned node), the engine
\* is back in the world and Active, and the program goes on.
C5_FailedMutationAbortsOnlyItself ==
    panicked = "ConnectError" =>
        (Topology = committed /\ slot = "Engine" /\ engine = "Active")

\* C6: the AudioEngine slot is refilled by every operation that empties it: it
\* is full when a frame starts, and no operation finds it empty.
C6_SlotRefilled ==
    /\ (pc = "Update" /\ panicked = "none") => slot = "Engine"
    /\ panicked # "Audio engine incorrectly set up"

\* C7: once the command of on_remove_node has run for an entity with a
\* recorded node n (component removed, or entity despawned), remove_node has
\* run, n is out of the graph and the entity is out of the map.
C7_LostRemovesNode ==
    (cur.kind = "remove" /\ nodeId # NoNode /\ (mutPc = "end" \/ panicked # "none")) =>
        (removeRan /\ nodeId \notin nodes /\ data[cur.e] = NoNode)

\* C8: a lost signal applied for an entity without an entry panics with a
\* ConsistencyError; remove_node is not invoked, the graph and the map do not
\* change.
C8_LostWithoutEntryPanics ==
    [][(mutPc = "closure" /\ cur.kind = "remove" /\ data[cur.e] = NoNode) =>
          /\ panicked' = "ConsistencyError"
          /\ ~removeRan'
          /\ UNCHANGED <<nodes, conns, data>>]_vars

\* C8 witness: a second lost signal for an entity whose node was already removed.
C8_Witness ==
    panicked = "ConsistencyError" /\ cur.kind = "remove" /\ nextId > 1 /\ nodes = {}

\* C9: after update() returned Deactivated the engine is Inactive and still
\* owned by the control scheduler, and the nodes recorded in the map exist.
C9_DeactivatedIsInactive ==
    deactivated =>
        /\ engine = "Inactive" /\ slot # "Empty"
        /\ \A e \in Mapped : data[e] \in GraphNodes

\* C10: an activation on a device that cannot be opened is not fatal: no
\* activation site ends the program.
C10_DeviceErrorNotFatal ==
    panicked \notin {"Cannot start audio engine", "Couldn't restart audio engine",
                     "Cannot restart audio engine"}

\* C11: a changed signal is handled by writing Parameter Cells and nothing
\* else: the steps of on_change_beep and detect_changes queue no mutation,
\* leave the engine, its device and its processors as they are, and change
\* neither the nodes, nor the connections, nor the map, nor the BeepNode
\* components.
C11_ChangedOnlyWritesCells ==
    [][(InPostUpdate /\ (chgBeep' # chgBeep \/ chgNode' # chgNode))
          => UNCHANGED <<queue, slot, engine, outDevice, procs, nodes, conns, nextId,
                         data, beepNode, mutPc, panicked>>]_vars

\* The block in flight loaded the cells of a live node, on_change_beep then
\* stored the changed fields while the engine went on running.
C11_Witness ==
    \E e \in gained :
        /\ data[e] # NoNode /\ beepNode[e] = data[e]
        /\ engine = "Active" /\ rtPc = "processing"
        /\ chgBeep = {}
        /\ cells[data[e]] = beep[e]
        /\ rtRead[data[e]] # cells[data[e]]

\* C12: the component is the source of truth.  For every entity with a live
\* node whose component has not changed since on_change_beep last ran, the
\* cells of the entity's BeepNode hold the fields of the component, they are
\* the cells of the live node, and a block that starts now loads exactly
\* those values.
C12_CellsFollowComponent ==
    \A e \in gained :
        (panicked = "none" /\ data[e] # NoNode /\ e \notin chgBeep)
        => /\ beepNode[e] = data[e]
           /\ cells[data[e]] = beep[e]
           /\ engine = "Active" => Load(procs[data[e]]) = beep[e]

\* The fields of a component with a live node changed in this frame,
\* on_change_beep stored them, and the block in flight loaded the new values.
C12_Witness ==
    \E e \in stored \cap gained :
        /\ data[e] # NoNode /\ chgBeep = {}
        /\ rtPc = "processing"
        /\ rtRead[data[e]] = beep[e]

\* C13: within one frame the mutations are applied in the order their signals
\* were emitted, one closure at a time: the command being applied is the next
\* of its frame in emission order, and the commands still waiting follow it
\* in that order.
C13_AppliedInEmissionOrder ==
    Running =>
        /\ mutPc # "idle" => cur.seq = batchDone + 1
        /\ \A i \in 1 .. Len(queue) :
               queue[i].seq = batchDone + (IF mutPc = "idle" THEN 0 ELSE 1) + i

\* An entity gained and lost the component in one frame, from an empty graph:
\* the second command of the frame, the removal, has just removed the node
\* the first command created and connected.
C13_Witness ==
    /\ mutPc = "end" /\ panicked = "none"
    /\ cur.kind = "remove" /\ cur.seq = 2 /\ batchDone = 1
    /\ removeRan /\ nodeId = 1 /\ nextId = 2
    /\ committed = [nodes |-> {1}, conns |-> {<<1, 0>>, <<1, 1>>}]
    /\ nodes = {} /\ conns = {}
    /\ data[cur.e] = NoNode

\* C14: overlapping mutation is prevented by construction: whatever the
\* closure does with the world, apply_audio_graph_command is never entered
\* while the AudioEngine is taken out of the world.  (The closure being
\* applied entered it again and the program panicked on the empty slot.)
C14_NeverEnteredWhileCheckedOut ==
    ~(mutPc = "closure" /\ userOp = "nested" /\ slot = "Empty"
      /\ panicked = "Audio engine incorrectly set up")

\* The node ids add_node has returned and remove_node has removed since.
RemovedIds == (1 .. (nextId - 1)) \ nodes

\* C15: once the remove command of an entity has removed node n, no entity
\* maps to n in any later state (add_node hands out fresh ids), and no two
\* entities ever map to the same node id.
C15_RemovedIdNeverMapped ==
    /\ \A e \in Entities : data[e] \notin RemovedIds
    /\ \A e1, e2 \in Mapped : e1 # e2 => data[e1] # data[e2]

\* A node was removed, and an entity maps to a node created after it.
C15_Witness ==
    /\ Quiet
    /\ \E n \in RemovedIds : \E e \in Mapped : data[e] > n /\ data[e] \in nodes

\* C16: the device stream of each activation is stopped at most once:
\* deactivate is never invoked on a context that update has reported
\* Deactivated or that has been deactivated already.
C16_StreamStoppedAtMostOnce == stops <= 1

\* update() reported Deactivated; a system of a later frame found no engine
\* in the world and panicked before any deactivate.
C16_Witness ==
    /\ deactivated /\ stops = 1 /\ engine = "Dropped"
    /\ panicked = "Audio engine incorrectly set up"

\* C17: the round trip of a Parameter Cell.  The cells create_node allocates
\* hold the fields the component has when the closure runs; after
\* on_change_beep has stored the fields of a component, the cells of its
\* BeepNode hold exactly those values; and a block loads, for every node it
\* processes, the values the cells of that node hold at that time.
C17_CellRoundTrip ==
    [][/\ (mutPc = "closure" /\ cur.kind = "add" /\ ~cur.gone /\ nextId' # nextId)
            => /\ cells'[nextId] = cur.beep
               /\ beepNode'[cur.e] = nextId
       /\ (InPostUpdate /\ chgBeep # {} /\ chgBeep' = {})
            => \A e \in ChangedBeeps : cells'[beepNode[e]] = beep[e]
       /\ (rtPc = "idle" /\ rtPc' = "processing")
            => \A n \in nodes : rtRead'[n] = cells[n]
      ]_vars

\* The first command of the frame created node 1 for a component of
\* amplitude 1; on_change_beep has not run since, and the block in flight
\* loaded the value the cells were created with.
C17_Witness ==
    \E e \in gained \cap chgBeep :
        /\ pc = "Apply" /\ Quiet /\ batchDone = 1
        /\ nextId = 2 /\ data[e] = 1 /\ nodes = {1}
        /\ beep[e].amplitude = 1
        /\ rtPc = "processing" /\ rtRead[1] = beep[e]

\* C20: however often the engine was deactivated and reactivated, the
\* processor of a live node reads the very cells on_change_beep writes for
\* the node's entity (those the entity's BeepNode points to), never a copy.
C20_ProcessorSharesCells ==
    \A e \in gained :
        (panicked = "none" /\ engine = "Active" /\ data[e] # NoNode)
        => /\ procs[data[e]].cell = beepNode[e]
           /\ ~procs[data[e]].own
           /\ Load(procs[data[e]]) = cells[beepNode[e]]

\* Node 1 went through the mutation that created node 2 and through a change
\* of output device; on_change_beep then stored new values for its entity and
\* the block in flight loaded them.
C20_Witness ==
    \E e \in stored \cap gained :
        /\ data[e] = 1 /\ nextId = 3 /\ 2 \in nodes
        /\ engine = "Active" /\ outDevice = "usb"
        /\ rtPc = "processing" /\ rtRead[1] = beep[e]

\* C18: a mutation that completes starts from an Active engine and ends with
\* an Active engine on the output device it was running on when it began,
\* whatever the closure did to the world; taking the graph and restarting
\* the engine change no node and no connection, and the closure changes only
\* what it is about (an added node and its connections, the removed node
\* and its connections, the connections into UserPort).
C18_MutationKeepsEngineAndDevice ==
    [][/\ (mutPc = "idle" /\ mutPc' = "closure")
            => /\ engine = "Active" /\ savedDev' = outDevice
               /\ UNCHANGED <<nodes, conns, outDevice>>
       /\ (mutPc = "closure" /\ mutPc' = "end")
            => /\ UNCHANGED outDevice
               /\ cur.kind = "add" => nodes \subseteq nodes' /\ conns \subseteq conns'
               /\ cur.kind = "remove" =>
                     /\ nodes' = nodes \ {nodeId'}
                     /\ conns' = {c \in conns : c[1] # nodeId'}
               /\ cur.kind = "user" =>
                     /\ nodes' = nodes
                     /\ {c \in conns : c[2] # UserPort} \subseteq conns'
       /\ (mutPc = "end" /\ mutPc' = "idle")
            => /\ engine' = "Active" /\ slot' = "Engine"
               /\ outDevice' = savedDev /\ outDevice' = outDevice
               /\ UNCHANGED <<nodes, conns>>
      ]_vars

\* The application's closure put another OutputDevice into the world; the
\* mutation completed and the engine runs on the device it ran on before,
\* with the nodes and connections it had.
C18_Witness ==
    /\ Quiet /\ pc = "Apply" /\ userOp = "device"
    /\ engine = "Active" /\ slot = "Engine"
    /\ outDevice = "default" /\ outputDevice = "usb" /\ devChanged
    /\ nodes # {} /\ committed = [nodes |-> nodes, conns |-> conns]

\* The step of update_output_device: PostUpdate is left for Last, or the
\* system panics.
UpdateOutputDeviceStep ==
    /\ Running /\ pc = "Apply" /\ mutPc = "idle" /\ queue = <<>>
    /\ (pc' = "Last" \/ panicked' # "none")

\* C19: when OutputDevice changed in a frame and the new device can be
\* opened, update_output_device leaves the engine Active on the new device,
\* and the nodes, the connections and the map are what they were.
C19_DeviceChangeReactivates ==
    [][(UpdateOutputDeviceStep /\ devChanged /\ CanOpen(outputDevice))
          => /\ panicked' = "none"
             /\ engine' = "Active" /\ slot' = "Engine"
             /\ outDevice' = Opened(outputDevice)
             /\ UNCHANGED <<nodes, conns, data>>]_vars

====
